---- MODULE Spec2Model ----
(***************************************************************************)
(* Syllable-directed word placement: the four placement engines of the     *)
(* repository (GridGenerator, KDPWordsearchGenerator, ExpandedWordCanvas,  *)
(* EnhancedKDPGenerator) as one state machine.  A behaviour is one         *)
(* generation call: the words are attempted one after the other, every     *)
(* attempt draws a start cell and directions, then the grid is filled.     *)
(***************************************************************************)
EXTENDS Integers, Sequences, FiniteSets, TLC

(* ------------------------------ bounds --------------------------------- *)

\* grid columns (12..24 in the repository)
Width == 4

\* grid rows (12..24 in the repository)
Height == 2

\* attempt budget per word (100, and 50 in EnhancedKDPGenerator)
max_attempts == 2

\* number of outcomes of the random source enumerated for the fill step
NumSeeds == 2

\* EnhancedKDPGenerator: format_specs[book_format]['grid_size'], the side of
\* its square grid (12 or 15 in the repository)
grid_size == 3

\* longest generated word handed to a syllable splitter
MaxWordLen == 4

(* ------------------------------ letters -------------------------------- *)

Lowercase ==
  <<"a","b","c","d","e","f","g","h","i","j","k","l","m",
    "n","o","p","q","r","s","t","u","v","w","x","y","z">>

Uppercase ==
  <<"A","B","C","D","E","F","G","H","I","J","K","L","M",
    "N","O","P","Q","R","S","T","U","V","W","X","Y","Z">>

IndexIn(seq, x) ==
  IF \E i \in 1..Len(seq) : seq[i] = x
  THEN CHOOSE i \in 1..Len(seq) : seq[i] = x
  ELSE 0

\* str.upper() on one character
UpperChar(c) ==
  IF IndexIn(Lowercase, c) > 0 THEN Uppercase[IndexIn(Lowercase, c)] ELSE c

\* str.lower() on one character
LowerChar(c) ==
  IF IndexIn(Uppercase, c) > 0 THEN Lowercase[IndexIn(Uppercase, c)] ELSE c

Upper(w) == [i \in 1..Len(w) |-> UpperChar(w[i])]

Lower(w) == [i \in 1..Len(w) |-> LowerChar(w[i])]

(* --------------------------- sequence helpers -------------------------- *)

RECURSIVE Concat(_)
\* ''.join(syllables)
Concat(ss) == IF ss = <<>> THEN <<>> ELSE Head(ss) \o Concat(Tail(ss))

RECURSIVE SumLen(_, _)
\* total length of the first k syllables
SumLen(ss, k) == IF k = 0 THEN 0 ELSE SumLen(ss, k - 1) + Len(ss[k])

\* the syllable (1-based) the i-th letter of the walk belongs to
SylOf(ss, i) ==
  CHOOSE k \in 1..Len(ss) : SumLen(ss, k - 1) < i /\ i <= SumLen(ss, k)

MaxOf(S) == CHOOSE x \in S : \A y \in S : y <= x

RECURSIVE InsertByLen(_, _)
\* insert w behind every entry that is at least as long (stable, descending)
InsertByLen(sorted, w) ==
  IF sorted = <<>> THEN <<w>>
  ELSE IF Len(Head(sorted).word) >= Len(w.word)
       THEN <<Head(sorted)>> \o InsertByLen(Tail(sorted), w)
       ELSE <<w>> \o sorted

\* a word list that is left in the order of the input (mutant of
\* SortByLenDesc)
SortByLenDesc_unsorted(ws) == ws

RECURSIVE SortByLenDesc(_)
\* list.sort(key=len(word), reverse=True): stable, longest first
SortByLenDesc(ws) ==
  IF ws = <<>> THEN <<>>
  ELSE InsertByLen(SortByLenDesc(SubSeq(ws, 1, Len(ws) - 1)), ws[Len(ws)])

(* ------------------------------ the grid ------------------------------- *)

\* the engines of the repository
Variants == {"GridGenerator", "KDP", "Canvas", "Enhanced"}


\* number of rows of the engine's grid
Rows(v) == IF v = "Enhanced" THEN grid_size ELSE Height

\* number of columns of the engine's grid
Cols(v) == IF v = "Enhanced" THEN grid_size ELSE Width

Cells(v) == (0..(Rows(v) - 1)) \X (0..(Cols(v) - 1))

\* the marker of an empty cell: '.' in KDPWordsearchGenerator, '' elsewhere
EmptyMark(v) == IF v = "KDP" THEN "." ELSE ""

EmptyGrid(v) == [cell \in Cells(v) |-> EmptyMark(v)]

\* _is_valid_position: 0 <= row < rows and 0 <= col < cols
is_valid_position(v, cell) ==
  /\ 0 <= cell[1] /\ cell[1] < Rows(v)
  /\ 0 <= cell[2] /\ cell[2] < Cols(v)

\* class Direction of syllaflow_algorithm.py and expanded_word_canvas_system.py
Direction ==
  { <<0, 1>>, <<0, -1>>, <<1, 0>>, <<-1, 0>>,
    <<1, 1>>, <<1, -1>>, <<-1, 1>>, <<-1, -1>> }

Step(cell, d, n) == <<cell[1] + n * d[1], cell[2] + n * d[2]>>

RECURSIVE SylStart(_, _, _, _)
\* the cell the k-th syllable starts from: one step past the last letter of
\* the syllable before it, in that syllable's direction
SylStart(start, ss, ds, k) ==
  IF k = 1 THEN start
  ELSE Step(SylStart(start, ss, ds, k - 1), ds[k - 1], Len(ss[k - 1]))

\* the cells walked for the syllables ss from start with one direction per
\* syllable: one cell per letter of the syllables
WalkPath(start, ss, ds) ==
  [i \in 1..SumLen(ss, Len(ss)) |->
     LET k == SylOf(ss, i)
     IN Step(SylStart(start, ss, ds, k), ds[k], i - SumLen(ss, k - 1) - 1)]

\* the grid after writing letters[i] to path[i] for i = 1..n in this order:
\* a cell visited twice keeps the letter written last
WriteAlong(g, path, letters, n) ==
  [cell \in DOMAIN g |->
     IF \E i \in 1..n : path[i] = cell
     THEN letters[MaxOf({i \in 1..n : path[i] = cell})]
     ELSE g[cell]]

\* the letters read along a path
ReadAlong(g, path) == [i \in 1..Len(path) |-> g[path[i]]]

(* -------------------- SyllableDetector (syllaflow_algorithm) ----------- *)

\* SyllableDetector.vowel_groups
vowel_groups == {"a", "e", "i", "o", "u", "y"}

IsVowelGroup(c) == LowerChar(c) \in vowel_groups

\* SyllableDetector.mindfulness_words: the curated syllabifications (the
\* entries short enough for the grids of this model)
mindfulness_words ==
  { [word |-> <<"w","i","s","d","o","m">>,
     syllables |-> << <<"w","i","s">>, <<"d","o","m">> >>] }

\* first index after i (1-based) that is past the word or holds a vowel
ClusterEnd(word, i) ==
  CHOOSE j \in (i + 1)..(Len(word) + 1) :
    /\ j = Len(word) + 1 \/ IsVowelGroup(word[j])
    /\ \A k \in (i + 1)..(j - 1) : ~IsVowelGroup(word[k])

RECURSIVE AlgScan(_, _, _, _)
\* the while loop of _algorithmic_syllable_detection from index i (1-based)
\* with the syllables found so far and the syllable being built
AlgScan(word, i, syllables, current) ==
  IF i > Len(word)
  THEN IF current # <<>> THEN Append(syllables, current) ELSE syllables
  ELSE LET cur1 == Append(current, word[i])
           j == ClusterEnd(word, i)
           consonant_cluster == SubSeq(word, i + 1, j - 1)
           split_point == Len(consonant_cluster) \div 2
       IN IF /\ IsVowelGroup(word[i])
             /\ i + 1 <= Len(word)
             /\ ~IsVowelGroup(word[i + 1])
             /\ Len(consonant_cluster) > 1
          THEN \* i = j - len(cluster) + split_point - 1, then i += 1
               AlgScan(word, i + split_point + 1,
                       Append(syllables,
                              cur1 \o SubSeq(consonant_cluster, 1, split_point)),
                       SubSeq(consonant_cluster, split_point + 1,
                              Len(consonant_cluster)))
          ELSE AlgScan(word, i + 1, syllables, cur1)

\* SyllableDetector._algorithmic_syllable_detection (syllable texts)
algorithmic_syllable_detection(word) ==
  LET syllables == AlgScan(word, 1, <<>>, <<>>)
  IN IF syllables # <<>> THEN syllables ELSE <<word>>

\* SyllableDetector.detect_syllables (syllable texts)
detect_syllables(w) ==
  LET word == Lower(w)
  IN IF \E e \in mindfulness_words : e.word = word
     THEN (CHOOSE e \in mindfulness_words : e.word = word).syllables
     ELSE algorithmic_syllable_detection(word)

\* GridGenerator._create_word_data: the lowercased word and its syllables
create_word_data(w) == [word |-> Lower(w), syllables |-> detect_syllables(w)]

(* ------------------------------- state --------------------------------- *)

VARIABLES
  variant,       \* the engine this call runs
  difficulty,    \* KDPWordsearchGenerator: the difficulty argument
  input,         \* the words handed to the generation call
  word_list,     \* the words in the order they are attempted
  wi,            \* index in word_list of the word being attempted
  attempt,       \* attempts already made for that word
  grid,          \* the letter grid
  placed_words,  \* the records of the words committed to the grid
  result_words,  \* the words listed in the returned puzzle
  word_count,    \* ExpandedWordCanvas: the word_count argument
  carried,       \* ExpandedWordCanvas: self.placed_words of earlier calls
  later,         \* the calls still to be made on this generator object
  splitter,      \* the syllable splitter that was called, or "none"
  split_word,    \* the word handed to the splitter
  split_result,  \* the syllables the splitter returned
  checked_walk,  \* EnhancedKDPGenerator: the (row, col) the check visited
  placed_walk,   \* the (row, col) of the walk that ran last: the commit of
                 \* EnhancedKDPGenerator, a path of _generate_syllable_path
  placed_dirs,   \* the directions of that walk, one per syllable reached
  avail_cell,    \* _get_available_directions: the arguments (row, col)
  avail_length,  \* _get_available_directions: the argument length
  avail_result,  \* _get_available_directions: the directions returned
  pc             \* "idle", "place", "fill", "done", "raised" (exception),
                 \* "word" (a splitter is about to be called), "split"

\* the state of a syllable splitter call
splitter_vars == <<splitter, split_word, split_result>>

\* the walks of the iteration of the while loop of
\* EnhancedKDPGenerator._generate_syllable_aware_grid that ran last
walk_vars == <<checked_walk, placed_walk, placed_dirs>>

\* the state of a call of ExpandedWordCanvas._get_available_directions
avail_vars == <<avail_cell, avail_length, avail_result>>

vars ==
  <<variant, difficulty, input, word_list, wi, attempt, grid, placed_words,
    result_words, word_count, carried, later, splitter_vars, walk_vars,
    avail_vars, pc>>

\* all sequences of n directions out of D
DirSeqs(n, D) == [1..n -> D]

\* the word being attempted
CurrentWord == word_list[wi]

\* the words of the records committed so far
PlacedNames == [i \in 1..Len(placed_words) |-> placed_words[i].word]

(* --------------------- GridGenerator (syllaflow_algorithm) ------------- *)

\* generate_puzzle: the word data, sorted longest first
GridWordList(ws) ==
  SortByLenDesc([i \in 1..Len(ws) |-> create_word_data(ws[i])])

\* a choice that keeps the previous direction in available_directions
\* (mutant of GridDirsAllowed)
GridDirsAllowed_any(ss, ds) == TRUE

\* _generate_syllable_path draws, for every syllable after the first, a
\* direction other than the one of the cell before it
GridDirsAllowed(ss, ds) ==
  \A k \in 2..Len(ss) : SumLen(ss, k - 1) > 0 => ds[k] # ds[k - 1]

\* _generate_syllable_path: the walked cells, or None (FALSE) when a cell of
\* the walk is outside the grid
generate_syllable_path(start, ss, ds) ==
  LET path == WalkPath(start, ss, ds)
  IN IF \A i \in 1..Len(path) : is_valid_position("GridGenerator", path[i])
     THEN [ok |-> TRUE, cells |-> path]
     ELSE [ok |-> FALSE, cells |-> <<>>]

\* _can_place_word_at_path
can_place_word_at_path(g, word, path) ==
  /\ Len(path) = Len(word)
  /\ \A i \in 1..Len(path) :
       /\ is_valid_position("GridGenerator", path[i])
       /\ g[path[i]] = "" \/ g[path[i]] = word[i]

\* _place_word_at_path: the grid after the letters are written in order
place_word_at_path(g, word, path) == WriteAlong(g, path, word, Len(path))

(* ----------------- KDPWordsearchGenerator (kdp_wordsearch_generator) --- *)

\* difficulty_settings[difficulty]['directions']
SettingsDirections(diff) ==
  IF diff = "beginner" THEN {"horizontal", "vertical"}
  ELSE {"horizontal", "vertical", "diagonal"}

\* difficulty_settings[difficulty]['word_count']
SettingsWordCount(diff) ==
  CASE diff = "beginner" -> 8
    [] diff = "intermediate" -> 12
    [] OTHER -> 15

\* available_directions of _generate_direction_sequence, as (dr, dc)
available_directions(diff) ==
  (IF "horizontal" \in SettingsDirections(diff)
   THEN {<<1, 0>>, <<-1, 0>>} ELSE {})
  \cup
  (IF "vertical" \in SettingsDirections(diff)
   THEN {<<0, 1>>, <<0, -1>>} ELSE {})
  \cup
  (IF "diagonal" \in SettingsDirections(diff)
   THEN {<<1, 1>>, <<-1, -1>>, <<1, -1>>, <<-1, 1>>} ELSE {})

\* a word list that is sorted and not cut to word_count (mutant of
\* KdpWordList)
KdpWordList_uncut(ws, diff) == SortByLenDesc(ws)

\* generate_syllable_aware_grid: sorted longest first, cut to word_count
KdpWordList(ws, diff) ==
  LET sorted_words == SortByLenDesc(ws)
  IN SubSeq(sorted_words, 1,
            IF Len(sorted_words) < SettingsWordCount(diff)
            THEN Len(sorted_words) ELSE SettingsWordCount(diff))

\* index of the first letter of the walk at which _can_place_syllable_word
\* stops (0 when it walks all syllables): a cell outside the grid, or a
\* cell that is not empty and is compared with word[char_index]
KdpFirstStop(g, word, path) ==
  LET stops == { i \in 1..Len(path) :
                   \/ ~is_valid_position("KDP", path[i])
                   \/ /\ g[path[i]] # "."
                      /\ (i > Len(word) \/ g[path[i]] # word[i]) }
  IN IF stops = {} THEN 0 ELSE CHOOSE i \in stops : \A j \in stops : i <= j

\* _can_place_syllable_word without the tests current_row < 0 and
\* current_col < 0 (mutant of can_place_syllable_word)
can_place_syllable_word_no_lower(g, word, ss, start, ds) ==
  LET path == WalkPath(start, ss, ds)
      stops == { i \in 1..Len(path) :
                   \/ path[i][1] >= Rows("KDP")
                   \/ path[i][2] >= Cols("KDP")
                   \/ /\ is_valid_position("KDP", path[i])
                      /\ g[path[i]] # "."
                      /\ (i > Len(word) \/ g[path[i]] # word[i]) }
  IN IF stops = {} THEN "yes" ELSE "no"

\* _can_place_syllable_word: "yes", "no", or "IndexError" when word[char_index]
\* is read past the end of the word
can_place_syllable_word(g, word, ss, start, ds) ==
  LET path == WalkPath(start, ss, ds)
      i == KdpFirstStop(g, word, path)
  IN IF i = 0 THEN "yes"
     ELSE IF ~is_valid_position("KDP", path[i]) THEN "no"
     ELSE IF i > Len(word) THEN "IndexError"
     ELSE "no"

\* number of letters _place_word_on_grid writes before it returns or raises
KdpWritten(word, path) == IF Len(path) <= Len(word) THEN Len(path) ELSE Len(word)

\* _place_word_on_grid: the grid after the letters word[char_index] are
\* written along the syllables' walk
place_word_on_grid(g, word, ss, start, ds) ==
  LET path == WalkPath(start, ss, ds)
  IN WriteAlong(g, path, word, KdpWritten(word, path))

(* ----------------- ExpandedWordCanvas (expanded_word_canvas_system) ---- *)

RECURSIVE DirectionFits(_, _, _, _)
\* _get_available_directions: the loop for i in range(length) from index i
\* for one direction; valid turns False at the first cell outside the grid
DirectionFits(cell, d, i, length) ==
  IF i >= length THEN TRUE
  ELSE IF ~is_valid_position("Canvas", Step(cell, d, i)) THEN FALSE
  ELSE DirectionFits(cell, d, i + 1, length)

\* a loop over range(length + 1): one cell too many (mutant of
\* get_available_directions)
get_available_directions_longer(cell, length) ==
  { d \in Direction : DirectionFits(cell, d, 0, length + 1) }

\* _get_available_directions(row, col, length)
get_available_directions(cell, length) ==
  { d \in Direction : DirectionFits(cell, d, 0, length) }

\* the directions _attempt_syllable_placement can draw: any for the first
\* syllable, an available one for every later syllable
CanvasDirsAllowed(start, ss, ds) ==
  \A k \in 2..Len(ss) :
    LET avail == get_available_directions(SylStart(start, ss, ds, k), Len(ss[k]))
    IN avail = {} \/ ds[k] \in avail

\* an attempt that tests the bounds and does not compare the letters with
\* the grid (mutant of attempt_syllable_placement)
attempt_syllable_placement_bounds(g, ss, start, ds) ==
  LET path == WalkPath(start, ss, ds)
  IN IF /\ \A k \in 2..Len(ss) :
             get_available_directions(SylStart(start, ss, ds, k), Len(ss[k])) # {}
        /\ \A i \in 1..Len(path) : is_valid_position("Canvas", path[i])
     THEN [ok |-> TRUE, cells |-> path]
     ELSE [ok |-> FALSE, cells |-> <<>>]

\* _attempt_syllable_placement: the positions of the PlacedWord, or None
attempt_syllable_placement(g, ss, start, ds) ==
  LET path == WalkPath(start, ss, ds)
      letters == Concat(ss)
  IN IF /\ \A k \in 2..Len(ss) :
             get_available_directions(SylStart(start, ss, ds, k), Len(ss[k])) # {}
        /\ \A i \in 1..Len(path) :
             /\ is_valid_position("Canvas", path[i])
             /\ g[path[i]] = "" \/ g[path[i]] = letters[i]
     THEN [ok |-> TRUE, cells |-> path]
     ELSE [ok |-> FALSE, cells |-> <<>>]

\* letter_at_pos of place_word_in_grid: the inner loop breaks at the first
\* match of a segment, the outer loop goes on, so the last segment that
\* holds the cell decides
letter_at_pos(ss, path, cell) ==
  LET hits == { i \in 1..Len(path) : path[i] = cell }
      k == MaxOf({ SylOf(ss, i) : i \in hits })
      i0 == CHOOSE i \in hits :
              /\ SylOf(ss, i) = k
              /\ \A j \in hits : SylOf(ss, j) = k => i <= j
  IN Concat(ss)[i0]

\* place_word_in_grid: the verification before the letters are written
place_word_check(g, ss, path) ==
  \A i \in 1..Len(path) :
    g[path[i]] = "" \/ g[path[i]] = letter_at_pos(ss, path, path[i])

\* place_word_in_grid: the grid after the letters of the segments are written
place_word_in_grid(g, ss, path) == WriteAlong(g, path, Concat(ss), Len(path))

(* ----------- EnhancedKDPGenerator (enhanced_kdp_generation_system) ----- *)

\* MinerUIntegration._split_syllables: vowels
split_vowels == {"a", "e", "i", "o", "u", "A", "E", "I", "O", "U"}

RECURSIVE SplitScan(_, _, _, _)
\* the loop of _split_syllables from index i (1-based)
SplitScan(word, i, syllables, current) ==
  IF i > Len(word)
  THEN IF current # <<>> THEN Append(syllables, current) ELSE syllables
  ELSE LET cur1 == Append(current, word[i])
       IN IF /\ word[i] \in split_vowels
             /\ i < Len(word)
             /\ word[i + 1] \notin split_vowels
          THEN SplitScan(word, i + 1, Append(syllables, cur1), <<>>)
          ELSE SplitScan(word, i + 1, syllables, cur1)

\* MinerUIntegration._split_syllables
split_syllables(word) ==
  LET syllables == SplitScan(word, 1, <<>>, <<>>)
  IN IF syllables # <<>> THEN syllables ELSE <<word>>

\* _extract_words: the word dict built for an extracted (lowercase) word
extract_word(w) == [word |-> Upper(w), syllables |-> split_syllables(w)]

\* the directions the walks start with: random.choice of three names
EnhInitialDirections == {"horizontal", "vertical", "diagonal"}

\* _get_new_direction: directions
EnhDirections == {"horizontal", "vertical", "diagonal", "diagonal_up"}

\* _get_direction_delta
get_direction_delta(direction) ==
  CASE direction = "horizontal" -> <<0, 1>>
    [] direction = "vertical" -> <<1, 0>>
    [] direction = "diagonal" -> <<1, 1>>
    [] direction = "diagonal_up" -> <<-1, 1>>
    [] OTHER -> <<0, 1>>

RECURSIVE EnhState(_, _, _, _, _, _)
\* the locals of the walk of _can_place_syllable_word / _place_syllable_word
\* before the i-th letter (1-based) is handled; news are the directions
\* _get_new_direction returns at the syllable boundaries, nb counts them
EnhState(wlen, ss, start, d0, news, i) ==
  IF i = 1
  THEN [pos |-> start, dir |-> d0, si |-> 1, cis |-> 0, nb |-> 0]
  ELSE LET p == EnhState(wlen, ss, start, d0, news, i - 1)
           boundary == p.si <= Len(ss) /\ p.cis + 1 >= Len(ss[p.si])
           dir1 == IF boundary THEN news[p.nb + 1] ELSE p.dir
       IN [pos |-> IF i - 1 < wlen
                   THEN Step(p.pos, get_direction_delta(dir1), 1)
                   ELSE p.pos,
           dir |-> dir1,
           si |-> IF boundary THEN p.si + 1 ELSE p.si,
           cis |-> IF boundary THEN 0 ELSE p.cis + 1,
           nb |-> IF boundary THEN p.nb + 1 ELSE p.nb]

\* _get_new_direction never returns the current direction.  A direction
\* drawn on the last letter is never used for a step: the entries of news
\* past the boundaries that lie before the last letter are fixed
EnhNewsAllowed(wlen, ss, start, d0, news) ==
  /\ \A i \in 1..(wlen - 1) :
       LET p == EnhState(wlen, ss, start, d0, news, i)
       IN (p.si <= Len(ss) /\ p.cis + 1 >= Len(ss[p.si]))
            => news[p.nb + 1] # p.dir
  /\ \A k \in 1..Len(news) :
       k > EnhState(wlen, ss, start, d0, news, wlen).nb => news[k] = "horizontal"

\* the directions of a walk up to its i-th letter: the initial direction
\* and the directions _get_new_direction returned at the boundaries passed
EnhDirsUsed(wlen, ss, start, d0, news, i) ==
  <<d0>> \o SubSeq(news, 1, EnhState(wlen, ss, start, d0, news, i).nb)

\* the draws of one walk: the initial direction and the directions
\* _get_new_direction returns
EnhDraws(wlen, ss, start) ==
  { d \in EnhInitialDirections \X DirSeqs(Len(ss), EnhDirections) :
      EnhNewsAllowed(wlen, ss, start, d[1], d[2]) }

\* the (current_row, current_col) of a walk, one per letter of the word
EnhWalk(wlen, ss, start, d0, news) ==
  [i \in 1..wlen |-> EnhState(wlen, ss, start, d0, news, i).pos]

\* EnhancedKDPGenerator._can_place_syllable_word on the walk it draws
enh_can_place_syllable_word(g, word, walk) ==
  \A i \in 1..Len(word) :
    /\ 0 <= walk[i][1] /\ walk[i][1] < grid_size
    /\ 0 <= walk[i][2] /\ walk[i][2] < grid_size
    /\ g[walk[i]] = "" \/ g[walk[i]] = word[i]

\* list indexing: a negative index counts from the end, -1 is IndexError
PyIndex(i, n) ==
  IF 0 <= i /\ i < n THEN i
  ELSE IF -n <= i /\ i < 0 THEN i + n
  ELSE -1

\* the cell grid[current_row][current_col] denotes
PyCell(pos) == <<PyIndex(pos[1], grid_size), PyIndex(pos[2], grid_size)>>

\* number of letters _place_syllable_word writes before it returns or raises
EnhWritten(walk) ==
  LET bad == { i \in 1..Len(walk) : PyCell(walk[i])[1] = -1 \/ PyCell(walk[i])[2] = -1 }
  IN IF bad = {} THEN Len(walk) ELSE (CHOOSE i \in bad : \A j \in bad : i <= j) - 1

\* the (current_row, current_col) at which _place_syllable_word executes
\* grid[current_row][current_col] = char: all of the walk, or the walk up to
\* the assignment that raises
EnhVisited(walk) ==
  SubSeq(walk, 1, IF EnhWritten(walk) < Len(walk) THEN EnhWritten(walk) + 1
                  ELSE Len(walk))

\* the cells _place_syllable_word writes on the walk it draws
EnhCells(walk) == [i \in 1..EnhWritten(walk) |-> PyCell(walk[i])]

\* EnhancedKDPGenerator._place_syllable_word: the grid after the writes
place_syllable_word(g, word, walk) ==
  WriteAlong(g, EnhCells(walk), word, EnhWritten(walk))

(* ------------------------------ fill step ------------------------------ *)

\* random.choice(letters) for a cell, for one outcome of the random source
random_choice(letters, v, cell, seed) ==
  letters[(((cell[1] * Cols(v) + cell[2]) * (seed + 1) + seed) % Len(letters)) + 1]

\* ExpandedWordCanvas.fill_empty_cells: vowels, consonants
vowels == <<"A", "E", "I", "O", "U">>

consonants ==
  <<"B","C","D","F","G","H","J","K","L","M","N","P","Q","R","S","T","V",
    "W","X","Y","Z">>

\* the letter the fill step of engine v draws for a cell
FillLetter(v, cell, seed) ==
  CASE v = "GridGenerator" -> random_choice(Lowercase, v, cell, seed)
    [] v = "KDP" -> random_choice(Uppercase, v, cell, seed)
    [] v = "Canvas" ->
         \* random.random() < 0.4: a vowel, else a consonant
         IF ((cell[1] + cell[2] + seed) % 5) < 2
         THEN random_choice(vowels, v, cell, seed)
         ELSE random_choice(consonants, v, cell, seed)
    [] OTHER -> random_choice(Uppercase, v, cell, seed)

\* a fill loop that stops one column early: range(width - 1) (mutant of
\* fill_empty_spaces)
fill_empty_spaces_short(v, g, seed) ==
  [cell \in DOMAIN g |->
     IF g[cell] = EmptyMark(v) /\ cell[2] < Cols(v) - 1
     THEN FillLetter(v, cell, seed) ELSE g[cell]]

\* a fill loop without the test for an empty cell (mutant of
\* fill_empty_spaces)
fill_empty_spaces_all(v, g, seed) ==
  [cell \in DOMAIN g |-> FillLetter(v, cell, seed)]

\* _fill_empty_spaces / fill_empty_cells: every empty cell gets a letter
fill_empty_spaces(v, g, seed) ==
  [cell \in DOMAIN g |->
     IF g[cell] = EmptyMark(v) THEN FillLetter(v, cell, seed) ELSE g[cell]]

(* ------ SyllableProcessor (mineru_integration_module) and -------------- *)
(* ------ AdvancedSyllableProcessor (advanced_word_extraction_system) ---- *)

\* self.vowels of both processors, on lowercased words
sp_vowels == {"a", "e", "i", "o", "u"}

\* SyllableProcessor.consonant_clusters
sp_consonant_clusters ==
  { <<"b","l">>, <<"b","r">>, <<"c","l">>, <<"c","r">>, <<"d","r">>,
    <<"f","l">>, <<"f","r">>, <<"g","l">>, <<"g","r">>, <<"p","l">>,
    <<"p","r">>, <<"s","c">>, <<"s","k">>, <<"s","l">>, <<"s","m">>,
    <<"s","n">>, <<"s","p">>, <<"s","t">>, <<"s","w">>, <<"t","r">>,
    <<"t","w">>, <<"t","h">>, <<"c","h">>, <<"s","h">>, <<"w","h">>,
    <<"p","h">>, <<"g","h">> }

\* AdvancedSyllableProcessor.consonant_clusters
adv_consonant_clusters == sp_consonant_clusters \cup { <<"c","k">>, <<"n","g">> }

\* AdvancedSyllableProcessor.consonants
adv_consonants == { Lowercase[i] : i \in 1..Len(Lowercase) } \ sp_vowels

\* SyllableProcessor._is_syllable_boundary at the 1-based index i
sp_is_syllable_boundary(word, i) ==
  /\ i < Len(word)
  /\ word[i] \in sp_vowels
  /\ word[i + 1] \notin sp_vowels
  /\ ~(i + 2 <= Len(word) /\ <<word[i + 1], word[i + 2]>> \in sp_consonant_clusters)

\* AdvancedSyllableProcessor._is_syllable_boundary at the 1-based index i
adv_is_syllable_boundary(word, i) ==
  /\ i < Len(word)
  /\ \/ /\ word[i] \in sp_vowels
        /\ word[i + 1] \in adv_consonants
        /\ ~(i + 2 <= Len(word)
             /\ <<word[i + 1], word[i + 2]>> \in adv_consonant_clusters)
     \/ /\ word[i] \in adv_consonants
        /\ word[i + 1] \in sp_vowels
        /\ i > 1
        /\ word[i - 1] \in sp_vowels

RECURSIVE BoundaryScan(_, _, _, _, _)
\* the while loop of split_syllables from index i (1-based); advanced tells
\* which processor's boundary test is used; the characters left over are
\* added to the last syllable
BoundaryScan(advanced, word, i, syllables, current_syllable) ==
  IF i > Len(word)
  THEN IF current_syllable = <<>>
       THEN syllables
       ELSE IF syllables # <<>>
            THEN [syllables EXCEPT ![Len(syllables)] = @ \o current_syllable]
            ELSE <<current_syllable>>
  ELSE LET cur1 == Append(current_syllable, word[i])
           boundary == IF advanced THEN adv_is_syllable_boundary(word, i)
                       ELSE sp_is_syllable_boundary(word, i)
       IN IF boundary
          THEN BoundaryScan(advanced, word, i + 1, Append(syllables, cur1), <<>>)
          ELSE BoundaryScan(advanced, word, i + 1, syllables, cur1)

\* SyllableProcessor.split_syllables
sp_split_syllables(w) ==
  LET word == Lower(w)
      syllables == BoundaryScan(FALSE, word, 1, <<>>, <<>>)
  IN IF Len(word) <= 2
     THEN <<word>>
     ELSE IF syllables # <<>> THEN syllables ELSE <<word>>

\* any(char in self.vowels for char in syllable)
HasVowel(syllable) == \E i \in 1..Len(syllable) : syllable[i] \in sp_vowels

\* AdvancedSyllableProcessor._split_consonant_le
split_consonant_le(word) ==
  IF Len(word) <= 3
  THEN <<word>>
  ELSE << SubSeq(word, 1, Len(word) - 3), SubSeq(word, Len(word) - 2, Len(word)) >>

RECURSIVE PostScan(_, _, _)
\* the loop of _post_process_syllables from index i (1-based) over the list
\* syllables, which the loop itself updates, with the list processed so far
PostScan(syllables, i, processed) ==
  IF i > Len(syllables)
  THEN processed
  ELSE IF HasVowel(syllables[i])
       THEN PostScan(syllables, i + 1, Append(processed, syllables[i]))
       ELSE IF i > 1
            THEN \* processed[-1] += syllable
                 PostScan(syllables, i + 1,
                          [processed EXCEPT ![Len(processed)] = @ \o syllables[i]])
            ELSE IF i < Len(syllables)
                 THEN \* syllables[i + 1] = syllable + syllables[i + 1]
                      PostScan([syllables EXCEPT ![i + 1] = syllables[i] \o @],
                               i + 1, processed)
                 ELSE PostScan(syllables, i + 1, Append(processed, syllables[i]))

\* a post-processing that drops a syllable without a vowel instead of
\* merging it (mutant of post_process_syllables)
post_process_syllables_drop(syllables) == SelectSeq(syllables, HasVowel)

\* AdvancedSyllableProcessor._post_process_syllables
post_process_syllables(syllables) ==
  IF syllables = <<>> THEN syllables ELSE PostScan(syllables, 1, <<>>)

\* AdvancedSyllableProcessor.split_syllables
adv_split_syllables(w) ==
  LET word == Lower(w)
      n == Len(word)
      syllables == post_process_syllables(BoundaryScan(TRUE, word, 1, <<>>, <<>>))
  IN IF n <= 2
     THEN <<word>>
     ELSE IF /\ n > 3
             /\ SubSeq(word, n - 1, n) = <<"l", "e">>
             /\ word[n - 2] \in adv_consonants
          THEN split_consonant_le(word)
          ELSE IF syllables # <<>> THEN syllables ELSE <<word>>

(* ------------------------------- inputs -------------------------------- *)

\* word lists handed to GridGenerator.generate_puzzle
GridInputs ==
  { << <<"o","m">>, <<"w","i","s","d","o","m">> >>,
    << <<"z","e","n">>, <<"j","o","y">> >>,
    << <<"a","r","t">>, <<"o","m">> >>,
    << <<"z","a","z","e","n">>, <<"o","m">> >> }

\* a word dict whose word is one syllable
OneSyllable(w) == [word |-> w, syllables |-> <<w>>]

\* more words than the beginner setting attempts: two short words first,
\* then seven words too long for the grid
NineWords ==
  << OneSyllable(<<"O","M">>), OneSyllable(<<"Z","E","N">>),
     OneSyllable(<<"W","I","S","D","O","M">>),
     OneSyllable(<<"B","R","E","A","T","H">>),
     OneSyllable(<<"C","E","N","T","E","R">>),
     OneSyllable(<<"G","R","O","W","T","H">>),
     OneSyllable(<<"S","P","I","R","I","T">>),
     OneSyllable(<<"N","A","T","U","R","E">>),
     OneSyllable(<<"H","E","A","L","T","H">>) >>

\* calls of KDPWordsearchGenerator.generate_syllable_aware_grid: the word
\* dicts and the difficulty
KdpCalls ==
  { [difficulty |-> "beginner", words |-> NineWords],
    [difficulty |-> "intermediate",
     words |-> << [word |-> <<"J","O","Y">>, syllables |-> << <<"J">>, <<"O","Y">> >>],
                  [word |-> <<"O","M">>, syllables |-> << <<"O","M">> >>] >>],
    [difficulty |-> "intermediate",
     words |-> << [word |-> <<"Z","E","N">>, syllables |-> << <<"Z","E">> >>] >>],
    [difficulty |-> "beginner",
     words |-> << [word |-> <<"O","M">>, syllables |-> << <<"O">>, <<"M","M">> >>],
                  [word |-> <<"Z","E","N">>, syllables |-> << <<"Z","E","N">> >>] >>],
    [difficulty |-> "advanced",
     words |-> << [word |-> <<"Z","A","Z","E","N">>,
                   syllables |-> << <<"Z","A","Z","E","N">> >>] >>] }

\* ExpandedWordCanvas.word_library: entries of the shape of the library
\* (uppercase, syllables that spell the word), short enough for the grid
word_library ==
  << [word |-> <<"J","O","Y">>, syllables |-> << <<"J">>, <<"O","Y">> >>,
      difficulty |-> "master"],
     [word |-> <<"Z","E","N">>, syllables |-> << <<"Z","E","N">> >>,
      difficulty |-> "beginner"],
     [word |-> <<"O","M">>, syllables |-> << <<"O","M">> >>,
      difficulty |-> "beginner"] >>

\* get_words_by_difficulty: adjacent_difficulties
adjacent_difficulties(diff) ==
  CASE diff = "beginner" -> {"intermediate"}
    [] diff = "intermediate" -> {"beginner", "advanced"}
    [] diff = "advanced" -> {"intermediate", "master"}
    [] OTHER -> {"advanced"}

\* the library indices of the words of the given difficulties
LibraryIndices(diffs) ==
  { i \in 1..Len(word_library) : word_library[i].difficulty \in diffs }

\* get_words_by_difficulty: the indices of all_words (words of the
\* adjacent levels are added when the level has fewer than count words)
all_words(diff, count) ==
  IF Cardinality(LibraryIndices({diff})) < count
  THEN LibraryIndices({diff}) \cup LibraryIndices(adjacent_difficulties(diff))
  ELSE LibraryIndices({diff})

\* get_words_by_difficulty: the outcomes of
\* random.sample(all_words, min(count, len(all_words)))
get_words_by_difficulty(diff, count) ==
  LET pool == all_words(diff, count)
      k == IF count < Cardinality(pool) THEN count ELSE Cardinality(pool)
  IN { [i \in 1..k |-> word_library[f[i]]] :
         f \in { g \in [1..k -> pool] :
                   \A i, j \in 1..k : i # j => g[i] # g[j] } }

\* calls of ExpandedWordCanvas.generate_expanded_canvas: the difficulty of
\* the canvas, the word_count argument, and the words that are sampled
CanvasCalls ==
  UNION { { [difficulty |-> c[1], word_count |-> c[2], words |-> ws] :
              ws \in get_words_by_difficulty(c[1], c[2]) } :
            c \in {<<"beginner", 1>>, <<"beginner", 2>>, <<"master", 2>>} }

\* puzzle words of EnhancedKDPGenerator: the dicts _extract_words builds
EnhancedInputs ==
  { << extract_word(<<"t","a","o">>), extract_word(<<"o","m">>) >>,
    << extract_word(<<"e","g","o">>) >>,
    << extract_word(<<"t","a","o">>) >> }

\* the calls of engine v: the difficulty argument and the words
Calls(v) ==
  CASE v = "GridGenerator" ->
         { [difficulty |-> "intermediate", word_count |-> 0, words |-> ws] :
             ws \in GridInputs }
    [] v = "KDP" ->
         { [difficulty |-> c.difficulty, word_count |-> 0, words |-> c.words] :
             c \in KdpCalls }
    [] v = "Canvas" -> CanvasCalls
    [] OTHER ->
         { [difficulty |-> "none", word_count |-> 0, words |-> ws] :
             ws \in EnhancedInputs }

\* a generator object that is used for a second puzzle: the two calls
Reused(v) ==
  CASE v = "GridGenerator" ->
         { << [difficulty |-> "intermediate", word_count |-> 0,
               words |-> << <<"o","m">> >>],
              [difficulty |-> "intermediate", word_count |-> 0,
               words |-> << <<"o","m">> >>] >> }
    [] v = "Canvas" ->
         { <<c, c>> : c \in { d \in CanvasCalls :
                                 d.words = << word_library[2] >> } }
    [] OTHER -> {}

\* the calls made on one generator object, in order
CallSequences(v) == { <<c>> : c \in Calls(v) } \cup Reused(v)

\* the words of a call in the order the engine attempts them
PrepareWords(v, ws, diff) ==
  CASE v = "GridGenerator" -> GridWordList(ws)
    [] v = "KDP" -> KdpWordList(ws, diff)
    [] OTHER -> ws

\* the words listed in the returned puzzle
ResultWords ==
  IF variant = "Enhanced"
  THEN \* puzzle['words'] = puzzle_words
       [i \in 1..Len(input) |-> input[i].word]
  ELSE PlacedNames

\* a generator object is constructed and the first call of one of the call
\* sequences is made
Init ==
  /\ variant \in Variants
  /\ \E calls \in CallSequences(variant) :
       /\ difficulty = calls[1].difficulty
       /\ word_count = calls[1].word_count
       /\ input = calls[1].words
       /\ later = Tail(calls)
  /\ carried = <<>>
  /\ splitter = "none"
  /\ split_word = <<>>
  /\ split_result = <<>>
  /\ checked_walk = <<>>
  /\ placed_walk = <<>>
  /\ placed_dirs = <<>>
  /\ avail_cell = <<0, 0>>
  /\ avail_length = 0
  /\ avail_result = {}
  /\ word_list = <<>>
  /\ wi = 0
  /\ attempt = 0
  /\ grid = EmptyGrid(variant)
  /\ placed_words = <<>>
  /\ result_words = <<>>
  /\ pc = "idle"

\* the call starts: the words are prepared and placement starts on the grid
Generate ==
  /\ pc = "idle"
  /\ word_list' = PrepareWords(variant, input, difficulty)
  /\ IF variant = "Canvas"
     THEN \* self.grid and self.placed_words are those of the constructor or
          \* of the call before; successfully_placed starts empty
          /\ grid' = grid
          /\ carried' = carried \o placed_words
     ELSE /\ grid' = EmptyGrid(variant)
          /\ carried' = carried
  /\ placed_words' = <<>>
  /\ result_words' = <<>>
  /\ wi' = 1
  /\ attempt' = 0
  /\ pc' = IF word_list' = <<>> THEN "fill" ELSE "place"
  /\ UNCHANGED <<variant, difficulty, input, word_count, later, splitter_vars,
                 walk_vars,
                 avail_vars>>

\* the caller makes the next call on the same generator object
NextCall ==
  /\ pc = "done"
  /\ later # <<>>
  /\ difficulty' = Head(later).difficulty
  /\ word_count' = Head(later).word_count
  /\ input' = Head(later).words
  /\ later' = Tail(later)
  /\ pc' = "idle"
  /\ UNCHANGED <<variant, word_list, wi, attempt, grid, placed_words,
                 result_words, carried, splitter_vars, walk_vars,
                 avail_vars>>

\* a loop that stays on the word it has just handled (mutant of NextWord)
NextWord_again ==
  /\ wi' = wi
  /\ attempt' = 0
  /\ pc' = "place"

\* a loop over the words that ends after its first word (mutant of NextWord)
NextWord_break ==
  /\ wi' = wi + 1
  /\ attempt' = 0
  /\ pc' = "fill"

\* the loop over the words moves to the next word, or to the fill step
NextWord ==
  /\ wi' = wi + 1
  /\ attempt' = 0
  /\ pc' = IF wi + 1 > Len(word_list) THEN "fill" ELSE "place"

\* an attempt failed: the next attempt, or the word is given up
FailedAttempt ==
  /\ UNCHANGED <<grid, placed_words>>
  /\ IF attempt + 1 >= max_attempts
     THEN NextWord
     ELSE attempt' = attempt + 1 /\ UNCHANGED <<wi, pc>>

\* GridGenerator._place_word_in_grid: one iteration of the attempt loop
GridAttempt ==
  /\ pc = "place"
  /\ variant = "GridGenerator"
  /\ \E start \in Cells(variant) :
       \E ds \in DirSeqs(Len(CurrentWord.syllables), Direction) :
         /\ GridDirsAllowed(CurrentWord.syllables, ds)
         /\ LET path == generate_syllable_path(start, CurrentWord.syllables, ds)
            IN IF /\ path.ok
                  /\ path.cells # <<>>
                  /\ can_place_word_at_path(grid, CurrentWord.word, path.cells)
               THEN /\ grid' = place_word_at_path(grid, CurrentWord.word,
                                                  path.cells)
                    /\ placed_words' =
                         Append(placed_words,
                                [word |-> CurrentWord.word,
                                 syllables |-> CurrentWord.syllables,
                                 path |-> path.cells,
                                 dirs |-> ds])
                    /\ NextWord
               ELSE FailedAttempt
  /\ UNCHANGED <<variant, difficulty, input, word_list, result_words,
                 word_count, carried, later, splitter_vars, walk_vars,
                 avail_vars>>

\* KDPWordsearchGenerator._place_syllable_word: one iteration of the loop
KdpAttempt ==
  /\ pc = "place"
  /\ variant = "KDP"
  /\ \E start \in Cells(variant) :
       \E ds \in DirSeqs(Len(CurrentWord.syllables),
                         available_directions(difficulty)) :
         LET word == Upper(CurrentWord.word)
             ss == CurrentWord.syllables
             can == can_place_syllable_word(grid, word, ss, start, ds)
             path == WalkPath(start, ss, ds)
         IN CASE can = "IndexError" ->
                   /\ pc' = "raised"
                   /\ UNCHANGED <<grid, placed_words, wi, attempt>>
              [] can = "yes" /\ Len(path) > Len(word) ->
                   \* word[char_index] raises after the word is written
                   /\ grid' = place_word_on_grid(grid, word, ss, start, ds)
                   /\ pc' = "raised"
                   /\ UNCHANGED <<placed_words, wi, attempt>>
              [] can = "yes" /\ Len(path) <= Len(word) ->
                   /\ grid' = place_word_on_grid(grid, word, ss, start, ds)
                   /\ placed_words' =
                        Append(placed_words,
                               [word |-> CurrentWord.word,
                                syllables |-> ss,
                                path |-> path,
                                dirs |-> ds])
                   /\ NextWord
              [] OTHER -> FailedAttempt
  /\ UNCHANGED <<variant, difficulty, input, word_list, result_words,
                 word_count, carried, later, splitter_vars, walk_vars,
                 avail_vars>>

\* ExpandedWordCanvas.syllable_aware_placement: one iteration of the loop,
\* and place_word_in_grid when the attempt returns a PlacedWord
CanvasAttempt ==
  /\ pc = "place"
  /\ variant = "Canvas"
  /\ \E start \in Cells(variant) :
       \E ds \in DirSeqs(Len(CurrentWord.syllables), Direction) :
         /\ CanvasDirsAllowed(start, CurrentWord.syllables, ds)
         /\ LET ss == CurrentWord.syllables
                placed_word == attempt_syllable_placement(grid, ss, start, ds)
            IN IF placed_word.ok
               THEN IF place_word_check(grid, ss, placed_word.cells)
                    THEN /\ grid' = place_word_in_grid(grid, ss,
                                                       placed_word.cells)
                         /\ placed_words' =
                              Append(placed_words,
                                     [word |-> CurrentWord.word,
                                      syllables |-> ss,
                                      path |-> placed_word.cells,
                                      dirs |-> ds])
                         /\ NextWord
                    ELSE /\ UNCHANGED <<grid, placed_words>>
                         /\ NextWord
               ELSE FailedAttempt
  /\ UNCHANGED <<variant, difficulty, input, word_list, result_words,
                 word_count, carried, later, splitter_vars, walk_vars,
                 avail_vars>>

\* EnhancedKDPGenerator._generate_syllable_aware_grid: one iteration of the
\* while loop; the check and the commit each draw their own directions
EnhancedAttempt ==
  /\ pc = "place"
  /\ variant = "Enhanced"
  /\ LET word == CurrentWord.word
         ss == CurrentWord.syllables
         n == Len(word)
         \* the walks a call of the check or of the commit can draw
         draws(start) == EnhDraws(n, ss, start)
     IN \E start \in Cells(variant) :
          \/ \E c \in draws(start) :
               /\ enh_can_place_syllable_word(
                    grid, word, EnhWalk(n, ss, start, c[1], c[2]))
               /\ checked_walk' = EnhWalk(n, ss, start, c[1], c[2])
               /\ \E p \in draws(start) :
                  LET walk == EnhWalk(n, ss, start, p[1], p[2])
                  IN /\ grid' = place_syllable_word(grid, word, walk)
                     /\ placed_walk' = EnhVisited(walk)
                     /\ placed_dirs' =
                          EnhDirsUsed(n, ss, start, p[1], p[2],
                                      Len(EnhVisited(walk)))
                     /\ IF EnhWritten(walk) < n
                        THEN \* grid[current_row][current_col]: IndexError
                             /\ pc' = "raised"
                             /\ UNCHANGED <<placed_words, wi, attempt>>
                        ELSE /\ placed_words' =
                                  Append(placed_words,
                                         [word |-> word,
                                          syllables |-> ss,
                                          path |-> EnhCells(walk),
                                          dirs |->
                                            [k \in 1..Len(ss) |->
                                               get_direction_delta(
                                                 IF k = 1 THEN p[1]
                                                 ELSE p[2][k - 1])]])
                             /\ NextWord
          \/ /\ \E c \in draws(start) :
                  ~enh_can_place_syllable_word(
                     grid, word, EnhWalk(n, ss, start, c[1], c[2]))
             /\ FailedAttempt
             /\ checked_walk' = <<>>
             /\ placed_walk' = <<>>
             /\ placed_dirs' = <<>>
  /\ UNCHANGED <<variant, difficulty, input, word_list, result_words,
                 word_count, carried, later, splitter_vars,
                 avail_vars>>

\* the fill step, and the call returns the puzzle
Fill ==
  /\ pc = "fill"
  /\ \E seed \in 0..(NumSeeds - 1) :
       grid' = fill_empty_spaces(variant, grid, seed)
  /\ result_words' = ResultWords
  /\ pc' = "done"
  /\ UNCHANGED <<variant, difficulty, input, word_list, wi, attempt,
                 placed_words, word_count, carried, later, splitter_vars,
                 avail_vars>>
  \* the locals of the loop are gone
  /\ checked_walk' = <<>>
  /\ placed_walk' = <<>>
  /\ placed_dirs' = <<>>

Next ==
  \/ Generate
  \/ NextCall
  \/ GridAttempt
  \/ KdpAttempt
  \/ CanvasAttempt
  \/ EnhancedAttempt
  \/ Fill

Spec == Init /\ [][Next]_vars

\* the position of a call in its loops
control == <<pc, wi, attempt>>

\* a call that has been made and has not returned or raised takes its next
\* step: every step of a call changes the position in its loops
Running ==
  /\ pc \in {"idle", "place", "fill"}
  /\ pc' \in {"idle", "place", "fill", "done", "raised"}
  /\ wi' \in 0..(wi + 1)
  /\ attempt' \in 0..(attempt + 1)

\* a call that has been made keeps running until it returns or raises
FairSpec == Spec /\ WF_control(Running)

(* ------------------------- syllable splitter calls --------------------- *)

\* the letters of the generated words
SplitLetters == {"a", "b", "l", "e"}

\* words of the texts and word lists the splitters are used on
SampleWords ==
  { <<"c","y","c","l","e">>, <<"m","y","r","t","l","e">>,
    <<"T","a","b","l","e">>, <<"a","r","t">>, <<"m","i","n","d">>,
    <<"h","e","l","l","o">>, <<"p","e","a","c","e">>,
    <<"W","i","s","d","o","m">>, <<"s","t","r","e","n","g","t","h">> }

\* the words handed to a splitter: every word over SplitLetters of at most
\* MaxWordLen letters, and the sample words
SplitWords ==
  (UNION { [1..n -> SplitLetters] : n \in 1..MaxWordLen }) \cup SampleWords

\* a word is about to be handed to a syllable splitter; no generator runs
SplitInit ==
  /\ split_word \in SplitWords
  /\ splitter = "none"
  /\ split_result = <<>>
  /\ checked_walk = <<>>
  /\ placed_walk = <<>>
  /\ placed_dirs = <<>>
  /\ avail_cell = <<0, 0>>
  /\ avail_length = 0
  /\ avail_result = {}
  /\ pc = "word"
  /\ variant = "GridGenerator"
  /\ difficulty = "intermediate"
  /\ word_count = 0
  /\ input = <<>>
  /\ later = <<>>
  /\ carried = <<>>
  /\ word_list = <<>>
  /\ wi = 0
  /\ attempt = 0
  /\ grid = EmptyGrid(variant)
  /\ placed_words = <<>>
  /\ result_words = <<>>

\* a splitter returns: its name and its syllables are recorded
Returned(name, syllables) ==
  /\ pc = "word"
  /\ splitter' = name
  /\ split_result' = syllables
  /\ pc' = "split"
  /\ UNCHANGED <<split_word, variant, difficulty, input, word_list, wi, attempt,
                 grid, placed_words, result_words, word_count, carried, later,
                 walk_vars, avail_vars>>

\* SyllableDetector.detect_syllables(word)
DetectSyllables == Returned("SyllableDetector", detect_syllables(split_word))

\* SyllableProcessor.split_syllables(word)
SplitSyllables == Returned("SyllableProcessor", sp_split_syllables(split_word))

\* AdvancedSyllableProcessor.split_syllables(word)
AdvancedSplitSyllables ==
  Returned("AdvancedSyllableProcessor", adv_split_syllables(split_word))

\* MinerUIntegration._extract_words: _split_syllables on a word of the
\* lowercased text
ExtractWords ==
  Returned("MinerUIntegration", split_syllables(Lower(split_word)))

SplitNext ==
  \/ DetectSyllables
  \/ SplitSyllables
  \/ AdvancedSplitSyllables
  \/ ExtractWords

SplitSpec == SplitInit /\ [][SplitNext]_vars

(* ------------------------- single syllable walks ----------------------- *)

\* the words a single walk is drawn for
WalkWords(v) ==
  IF v = "GridGenerator"
  THEN { create_word_data(w) :
           w \in { <<"a","r","t">>, <<"w","i","s","d","o","m">>,
                   <<"z","e","n">> } }
  ELSE { extract_word(w) :
           w \in { <<"j","o","y">>, <<"e","g","o">>, <<"t","a","o">> } }

\* a generator with an empty grid is about to draw one walk for one word
WalkInit ==
  /\ variant \in {"GridGenerator", "Enhanced"}
  /\ \E w \in WalkWords(variant) :
       /\ input = <<w.word>>
       /\ word_list = <<w>>
  /\ wi = 1
  /\ attempt = 0
  /\ pc = "walk"
  /\ grid = EmptyGrid(variant)
  /\ placed_words = <<>>
  /\ result_words = <<>>
  /\ difficulty = "none"
  /\ word_count = 0
  /\ later = <<>>
  /\ carried = <<>>
  /\ splitter = "none"
  /\ split_word = <<>>
  /\ split_result = <<>>
  /\ checked_walk = <<>>
  /\ placed_walk = <<>>
  /\ placed_dirs = <<>>
  /\ avail_cell = <<0, 0>>
  /\ avail_length = 0
  /\ avail_result = {}

\* GridGenerator._generate_syllable_path returns a path, or None
GenerateSyllablePath ==
  /\ pc = "walk"
  /\ variant = "GridGenerator"
  /\ \E start \in Cells(variant) :
       \E ds \in DirSeqs(Len(CurrentWord.syllables), Direction) :
         /\ GridDirsAllowed(CurrentWord.syllables, ds)
         /\ LET path == generate_syllable_path(start, CurrentWord.syllables, ds)
            IN /\ placed_walk' = path.cells
               /\ placed_dirs' = IF path.ok THEN ds ELSE <<>>
  /\ pc' = "walked"
  /\ UNCHANGED <<variant, difficulty, input, word_list, wi, attempt, grid,
                 placed_words, result_words, word_count, carried, later,
                 splitter_vars, checked_walk, avail_vars>>

\* EnhancedKDPGenerator._place_syllable_word walks and writes, or raises
PlaceSyllableWord ==
  /\ pc = "walk"
  /\ variant = "Enhanced"
  /\ LET word == CurrentWord.word
         ss == CurrentWord.syllables
         n == Len(word)
     IN \E start \in Cells(variant) :
          \E p \in EnhDraws(n, ss, start) :
            LET walk == EnhWalk(n, ss, start, p[1], p[2])
            IN /\ grid' = place_syllable_word(grid, word, walk)
               /\ placed_walk' = EnhVisited(walk)
               /\ placed_dirs' =
                    EnhDirsUsed(n, ss, start, p[1], p[2], Len(EnhVisited(walk)))
               /\ pc' = IF EnhWritten(walk) < n THEN "raised" ELSE "walked"
  /\ UNCHANGED <<variant, difficulty, input, word_list, wi, attempt,
                 placed_words, result_words, word_count, carried, later,
                 splitter_vars, checked_walk, avail_vars>>

WalkNext ==
  \/ GenerateSyllablePath
  \/ PlaceSyllableWord

WalkSpec == WalkInit /\ [][WalkNext]_vars

(* ----------------- calls of _get_available_directions ----------------- *)

\* the rows and columns handed to _get_available_directions: those of the
\* grid and one on either side of it
AvailCells == ((-1)..Height) \X ((-1)..Width)

\* a canvas is constructed and _get_available_directions is about to be
\* called
AvailInit ==
  /\ avail_cell \in AvailCells
  /\ avail_length \in 0..MaxWordLen
  /\ avail_result = {}
  /\ pc = "args"
  /\ variant = "Canvas"
  /\ difficulty = "beginner"
  /\ word_count = 0
  /\ input = <<>>
  /\ later = <<>>
  /\ carried = <<>>
  /\ word_list = <<>>
  /\ wi = 0
  /\ attempt = 0
  /\ grid = EmptyGrid(variant)
  /\ placed_words = <<>>
  /\ result_words = <<>>
  /\ splitter = "none"
  /\ split_word = <<>>
  /\ split_result = <<>>
  /\ checked_walk = <<>>
  /\ placed_walk = <<>>
  /\ placed_dirs = <<>>

\* ExpandedWordCanvas._get_available_directions(row, col, length) returns
GetAvailableDirections ==
  /\ pc = "args"
  /\ avail_result' = get_available_directions(avail_cell, avail_length)
  /\ pc' = "directions"
  /\ UNCHANGED <<avail_cell, avail_length, variant, difficulty, input,
                 word_list, wi, attempt, grid, placed_words, result_words,
                 word_count, carried, later, splitter_vars, walk_vars>>

AvailSpec == AvailInit /\ [][GetAvailableDirections]_vars

(* ------------------------------ properties ----------------------------- *)

\* the engines that record a checked path: GridGenerator, KDP, Canvas
CheckedEngines == {"GridGenerator", "KDP", "Canvas"}

\* the letters a placed word requires along its path: word[char_index]
\* (uppercased by KDPWordsearchGenerator), the syllables' letters in Canvas
Required(p) ==
  CASE variant = "KDP" -> Upper(p.word)
    [] variant = "Canvas" -> Concat(p.syllables)
    [] OTHER -> p.word

\* the indices of the letters of syllable k of a placed word
SylIndices(p, k) ==
  { i \in 1..Len(p.path) :
      SumLen(p.syllables, k - 1) < i /\ i <= SumLen(p.syllables, k) }

\* C1: in the returned grid, the letters read along the recorded path of
\* every placed word of GridGenerator, KDP and Canvas spell the word
C1_PathSpellsWord ==
  (pc = "done" /\ variant \in CheckedEngines) =>
    \A n \in 1..Len(placed_words) :
      ReadAlong(grid, placed_words[n].path) = placed_words[n].word

\* C2: the coordinates of every committed path are pairwise distinct
C2_PathCellsDistinct ==
  \A n \in 1..Len(placed_words) :
    \A i, j \in 1..Len(placed_words[n].path) :
      i # j => placed_words[n].path[i] # placed_words[n].path[j]

\* C3: two placed words that share a cell require the same letter there, and
\* the returned grid holds that letter
C3_SharedCellsAgree ==
  (pc = "done" /\ variant \in CheckedEngines) =>
    \A a, b \in 1..Len(placed_words) :
      a # b =>
        \A i \in 1..Len(placed_words[a].path) :
          \A j \in 1..Len(placed_words[b].path) :
            (/\ placed_words[a].path[i] = placed_words[b].path[j]
             /\ i <= Len(Required(placed_words[a]))
             /\ j <= Len(Required(placed_words[b])))
              => /\ Required(placed_words[a])[i] = Required(placed_words[b])[j]
                 /\ grid[placed_words[a].path[i]] = Required(placed_words[a])[i]

\* C4: every coordinate of a path committed by GridGenerator, KDP or Canvas
\* lies inside the grid
C4_PathInBounds ==
  variant \in CheckedEngines =>
    \A n \in 1..Len(placed_words) :
      \A i \in 1..Len(placed_words[n].path) :
        is_valid_position(variant, placed_words[n].path[i])

\* a committed path that bends between two syllables, in one of the three
\* engines of C4
C4_Witness ==
  /\ variant \in CheckedEngines
  /\ \E n \in 1..Len(placed_words) :
       /\ Len(placed_words[n].syllables) = 2
       /\ placed_words[n].dirs[1] # placed_words[n].dirs[2]
       /\ Len(placed_words[n].path) >= 3

\* C5: within one syllable of a committed placement, consecutive cells
\* differ by one fixed direction vector
C5_SyllableStraight ==
  \A n \in 1..Len(placed_words) :
    \A k \in 1..Len(placed_words[n].syllables) :
      \E d \in Direction :
        \A i \in SylIndices(placed_words[n], k) :
          (i + 1) \in SylIndices(placed_words[n], k) =>
            placed_words[n].path[i + 1] = Step(placed_words[n].path[i], d, 1)

\* a (word, syllables) pair whose syllables are shorter or longer than the word
Mismatch(w) == SumLen(w.syllables, Len(w.syllables)) # Len(w.word)

\* C6: a word whose syllables do not spell it is rejected: it is never
\* recorded as placed (whole or truncated) and never raises an index error
C6_MismatchRejected ==
  (\E n \in 1..Len(word_list) : Mismatch(word_list[n])) =>
    /\ pc # "raised"
    /\ \A n \in 1..Len(placed_words) : ~Mismatch(placed_words[n])

\* the longer side of the grid
LongerSide == IF Rows(variant) > Cols(variant) THEN Rows(variant) ELSE Cols(variant)

\* a grid too small for a word of the call: a syllable is longer than the
\* longer side of the grid, so no direction fits it
ConfigError ==
  LET ws == PrepareWords(variant, input, difficulty)
  IN \E n \in 1..Len(ws) :
       \E k \in 1..Len(ws[n].syllables) : Len(ws[n].syllables[k]) > LongerSide

\* C7: with a grid too small for a word, generation fails before the first
\* attempt: no start cell is drawn, no cell is written, no grid is returned
C7_ConfigRejected ==
  (variant \in {"GridGenerator", "KDP"} /\ ConfigError) =>
    /\ attempt = 0
    /\ wi <= 1
    /\ pc \notin {"fill", "done"}
    /\ grid = EmptyGrid(variant)

\* numerator of grid_utilization of generate_expanded_canvas
FilledCells == Cardinality({ cell \in DOMAIN grid : grid[cell] # "" })

\* C8: a returned grid has no empty cell, and the grid_utilization of
\* generate_expanded_canvas is 1
C8_NoEmptyCell ==
  pc = "done" =>
    /\ \A cell \in Cells(variant) : grid[cell] \notin {"", "."}
    /\ variant = "Canvas" => FilledCells = Rows(variant) * Cols(variant)

\* a canvas returned with one word placed and one word left out
C8_Witness ==
  /\ pc = "done"
  /\ variant = "Canvas"
  /\ Len(placed_words) = 1
  /\ Len(word_list) = 2

\* C9: the fill step changes only cells that are empty when it starts
C9_FillKeepsLetters ==
  [][pc = "fill" =>
       \A cell \in DOMAIN grid :
         grid[cell] # EmptyMark(variant) => grid'[cell] = grid[cell]]_vars

\* the cells on the paths of the placed words
PathCells ==
  UNION { { placed_words[n].path[i] : i \in 1..Len(placed_words[n].path) } :
            n \in 1..Len(placed_words) }

\* a filled grid that holds a placed word and letters the fill step wrote
C9_Witness ==
  /\ pc = "done"
  /\ placed_words # <<>>
  /\ \E cell \in DOMAIN grid : cell \notin PathCells
  /\ \A n \in 1..Len(placed_words) :
       ReadAlong(grid, placed_words[n].path) = Required(placed_words[n])

\* C10: the words returned with a puzzle are exactly the words committed to
\* its grid
C10_ResultIsPlaced ==
  pc = "done" => result_words = PlacedNames

\* the splitters that return plain syllable lists
ListSplitters ==
  {"SyllableProcessor", "AdvancedSyllableProcessor", "MinerUIntegration"}

\* C14: for a lowercase word, the syllables detect_syllables returns
\* concatenate to the word: no character is dropped or duplicated
C14_DetectConcat ==
  (splitter = "SyllableDetector" /\ split_word = Lower(split_word)) =>
    Concat(split_result) = split_word

C16_SyllableHasVowel ==
  (/\ splitter \in ListSplitters
   /\ Len(split_word) > 2
   /\ HasVowel(Lower(split_word))) =>
    \A k \in 1..Len(split_result) : HasVowel(split_result[k])

\* a word of the list before the current one was given up
SomeWordFailed ==
  /\ pc \in {"place", "fill"}
  /\ \E n \in 1..(wi - 1) :
       /\ n <= Len(word_list)
       /\ \A m \in 1..Len(placed_words) : placed_words[m].word # word_list[n].word

\* C11: after a word has failed all its attempts the call goes on: it never
\* raises, every word of the list is attempted, the fill step runs and the
\* call returns
C11_ContinuesAfterFailure ==
  /\ []((variant \in {"GridGenerator", "Canvas"}) => pc # "raised")
  /\ (variant \in {"GridGenerator", "Canvas"} /\ SomeWordFailed)
       ~> (pc = "done" /\ wi = Len(word_list) + 1)

\* a returned puzzle whose first word failed and whose second word is placed
C11_Witness ==
  /\ pc = "done"
  /\ variant = "GridGenerator"
  /\ Len(word_list) = 2
  /\ Len(placed_words) = 1
  /\ placed_words[1].word = word_list[2].word

\* C12: a word gets at most the attempt budget of attempts, and every call
\* ends with all words attempted and the grid filled
C12_Terminates ==
  /\ [](pc = "place" => attempt < max_attempts)
  /\ <>(pc = "done" /\ wi = Len(word_list) + 1)

\* the letters A..Z
UppercaseLetters == { Uppercase[i] : i \in 1..Len(Uppercase) }

\* C13: every cell of a returned grid holds one uppercase letter A..Z
C13_UppercaseGrid ==
  pc = "done" => \A cell \in Cells(variant) : grid[cell] \in UppercaseLetters

\* the index in the input of the word attempted as the i-th
InputIndex(i) ==
  CHOOSE k \in 1..Len(input) :
    word_list[i] = (IF variant = "GridGenerator"
                    THEN create_word_data(input[k]) ELSE input[k])

\* C17: GridGenerator and KDPWordsearchGenerator attempt the words longest
\* first, and words of equal length in the order of the input
C17_LongestFirst ==
  (variant \in {"GridGenerator", "KDP"} /\ pc # "idle") =>
    \A i, j \in 1..Len(word_list) :
      i < j =>
        /\ Len(word_list[i].word) >= Len(word_list[j].word)
        /\ Len(word_list[i].word) = Len(word_list[j].word) =>
             InputIndex(i) < InputIndex(j)

\* a shorter word is first in the input and the longer word is attempted
\* before it
C17_Witness ==
  /\ variant \in {"GridGenerator", "KDP"}
  /\ pc = "place"
  /\ wi = 2
  /\ Len(input) = 2
  /\ CurrentWord.word = (IF variant = "GridGenerator" THEN input[1]
                         ELSE input[1].word)
  /\ Len(word_list[1].word) > Len(CurrentWord.word)

\* C18: placement of every call starts on an empty grid and with no placed
\* words, also on a generator object that has produced a puzzle before
C18_FreshGrid ==
  (pc = "place" /\ wi = 1 /\ attempt = 0) =>
    /\ grid = EmptyGrid(variant)
    /\ placed_words = <<>>
    /\ carried = <<>>

\* a count of the words that were attempted (mutant of words_placed)
words_placed_attempted == Len(word_list)

\* metadata of generate_expanded_canvas: len(successfully_placed)
words_placed == Len(placed_words)

\* metadata of generate_expanded_canvas: word_count
words_requested == word_count

\* C19: in the result of generate_expanded_canvas words_placed is the number
\* of word records, is the number of words committed in that call, and is
\* at most words_requested
C19_CanvasCounts ==
  (pc = "done" /\ variant = "Canvas") =>
    /\ words_placed = Len(result_words)
    /\ \A n \in 1..Len(placed_words) :
         LET p == placed_words[n]
         IN ReadAlong(grid, p.path) =
              ReadAlong(WriteAlong(grid, p.path, Required(p), Len(p.path)), p.path)
    /\ words_placed <= words_requested

\* a canvas result with fewer words placed than requested, and one with as
\* many: here two words are requested, one is selected and it is placed
C19_Witness ==
  /\ pc = "done"
  /\ variant = "Canvas"
  /\ words_requested = 2
  /\ Len(input) = 1
  /\ words_placed = 1

\* C20: an attempt either leaves the grid and the placed words as they were,
\* or it has validated a path over all letters of the word, writes all the
\* letters and records the word (GridGenerator, KDP, Canvas)
C20_AttemptFrame ==
  [][(pc = "place" /\ variant \in CheckedEngines) =>
       \/ grid' = grid /\ placed_words' = placed_words
       \/ /\ Len(placed_words') = Len(placed_words) + 1
          /\ LET p == placed_words'[Len(placed_words')]
                 letters == Required(p)
             IN /\ SubSeq(placed_words', 1, Len(placed_words)) = placed_words
                /\ Len(p.path) = Len(letters)
                /\ \A i \in 1..Len(p.path) :
                     /\ is_valid_position(variant, p.path[i])
                     /\ grid[p.path[i]] \in {EmptyMark(variant), letters[i]}
                /\ grid' = WriteAlong(grid, p.path, letters, Len(letters))]_vars

\* C21: in EnhancedKDPGenerator the commit visits exactly the cells the
\* successful check before it visited, in the same order; so it never raises,
\* never leaves the grid (no negative index that wraps to the last row) and
\* never replaces a letter of the grid by a different letter
C21_CommitFollowsCheck ==
  /\ [](variant = "Enhanced" =>
         /\ placed_walk = checked_walk
         /\ pc # "raised"
         /\ \A i \in 1..Len(placed_walk) :
              is_valid_position("Enhanced", placed_walk[i]))
  /\ [][(variant = "Enhanced" /\ pc = "place") =>
          \A cell \in DOMAIN grid :
            grid[cell] # "" => grid'[cell] = grid[cell]]_vars

\* C22: in KDPWordsearchGenerator and ExpandedWordCanvas every syllable
\* after the first runs in a direction different from the direction of the
\* syllable before it
C22_DirectionChanges ==
  variant \in {"KDP", "Canvas"} =>
    \A n \in 1..Len(placed_words) :
      \A k \in 2..Len(placed_words[n].syllables) :
        placed_words[n].dirs[k] # placed_words[n].dirs[k - 1]

\* C23: in every path of GridGenerator._generate_syllable_path and in every
\* walk of EnhancedKDPGenerator._place_syllable_word the direction of a
\* syllable differs from the direction of the syllable before it
C23_PreviousDirectionExcluded ==
  variant \in {"GridGenerator", "Enhanced"} =>
    \A k \in 2..Len(placed_dirs) : placed_dirs[k] # placed_dirs[k - 1]

\* _generate_syllable_path has returned a path for the two syllables of a
\* word that runs to the right and then turns down
C23_Witness ==
  /\ variant = "GridGenerator"
  /\ pc = "walked"
  /\ Len(CurrentWord.syllables) = 2
  /\ placed_dirs = << <<0, 1>>, <<1, 0>> >>
  /\ Len(placed_walk) = SumLen(CurrentWord.syllables, 2)

\* C24: _get_available_directions(row, col, length) returns exactly the
\* directions for which the length cells from (row, col) are all inside the
\* grid, for every row and col (also outside the grid) and every
\* length >= 0, and it leaves the grid and the placed words alone
C24_AvailableDirections ==
  pc = "directions" =>
    /\ avail_result =
         { d \in Direction :
             \A i \in 0..(avail_length - 1) :
               /\ 0 <= avail_cell[1] + i * d[1]
               /\ avail_cell[1] + i * d[1] < Height
               /\ 0 <= avail_cell[2] + i * d[2]
               /\ avail_cell[2] + i * d[2] < Width }
    /\ grid = EmptyGrid("Canvas")
    /\ placed_words = <<>>

\* from the corner (0, 0) two cells fit to the right, down and diagonally
C24_Witness ==
  /\ pc = "directions"
  /\ avail_cell = <<0, 0>>
  /\ avail_length = 2
  /\ avail_result = { <<0, 1>>, <<1, 0>>, <<1, 1>> }

\* the positions after which the returned syllables are cut: a cut at i lies
\* between the letters i and i + 1 of the word (1-based)
Cuts == { SumLen(split_result, k) : k \in 1..(Len(split_result) - 1) }

\* the clusters the processor that was called does not split after a vowel
KnownClusters ==
  IF splitter = "AdvancedSyllableProcessor" THEN adv_consonant_clusters
  ELSE sp_consonant_clusters

\* C25: when a vowel is followed by two consonants that form a known
\* cluster, SyllableProcessor and AdvancedSyllableProcessor do not cut
\* between the vowel and the cluster, and cut immediately after the cluster
C25_BoundaryAfterCluster ==
  splitter \in {"SyllableProcessor", "AdvancedSyllableProcessor"} =>
    LET word == Lower(split_word)
    IN \A i \in 1..(Len(word) - 2) :
         (/\ word[i] \in sp_vowels
          /\ <<word[i + 1], word[i + 2]>> \in KnownClusters) =>
           /\ i \notin Cuts
           /\ i + 2 < Len(word) => (i + 2) \in Cuts

\* the engines whose loop is the subject of C26
LoopEngines == {"GridGenerator", "KDP", "Enhanced"}

\* C26: once a word has been committed no further attempt is made for it:
\* a step that writes a word or records it moves on to the next entry of the
\* word list (or ends the call), so the call never holds more records than
\* entries it has finished
C26_CommittedOnce ==
  /\ []((variant \in LoopEngines /\ pc \in {"place", "fill", "done"}) =>
         Len(placed_words) <= wi - 1)
  /\ [][(/\ variant \in LoopEngines
          /\ pc = "place"
          /\ (grid' # grid \/ placed_words' # placed_words)) =>
           /\ Len(placed_words') <= Len(placed_words) + 1
           /\ (wi' = wi + 1 \/ pc' = "raised")]_vars

\* a call that has committed both entries of its word list, each once
C26_Witness ==
  /\ variant \in LoopEngines
  /\ pc = "done"
  /\ Len(word_list) = 2
  /\ Len(placed_words) = 2
  /\ placed_words[1].word = word_list[1].word
  /\ placed_words[2].word = word_list[2].word

\* the word is committed by some attempt on the empty grid: a start cell and
\* directions _generate_syllable_path can draw give a path that
\* _can_place_word_at_path accepts
Placeable(w) ==
  \E start \in Cells("GridGenerator") :
    \E ds \in DirSeqs(Len(w.syllables), Direction) :
      /\ GridDirsAllowed(w.syllables, ds)
      /\ LET path == generate_syllable_path(start, w.syllables, ds)
         IN /\ path.ok
            /\ path.cells # <<>>
            /\ can_place_word_at_path(EmptyGrid("GridGenerator"), w.word,
                                      path.cells)

\* C27: every word handed to GridGenerator.generate_puzzle that is not in the
\* curated database and is no longer than the grid is wide can be placed:
\* its detected syllables have one letter per letter of the word and some
\* attempt on the empty grid commits it
C27_EveryWordPlaceable ==
  (variant = "GridGenerator" /\ pc = "place") =>
    \A n \in 1..Len(word_list) :
      (/\ \A e \in mindfulness_words : e.word # word_list[n].word
       /\ Len(word_list[n].word) <= Width) =>
        /\ SumLen(word_list[n].syllables, Len(word_list[n].syllables)) =
             Len(word_list[n].word)
        /\ Placeable(word_list[n])

\* C28: with the beginner setting (backwards: False, diagonal: False) no
\* syllable of a word placed by KDPWordsearchGenerator runs diagonally and
\* none runs backwards (a step of -1 in the row or in the column)
C28_BeginnerDirections ==
  (variant = "KDP" /\ difficulty = "beginner") =>
    \A n \in 1..Len(placed_words) :
      \A k \in 1..Len(placed_words[n].dirs) :
        LET d == placed_words[n].dirs[k]
        IN /\ d[1] = 0 \/ d[2] = 0
           /\ d[1] # -1
           /\ d[2] # -1

\* the entries of the input that are not attempted
NotAttempted ==
  { k \in 1..Len(input) : \A i \in 1..Len(word_list) : word_list[i] # input[k] }

\* C29: KDPWordsearchGenerator attempts at most word_count words, the
\* longest of the input: the placed list has at most word_count entries and
\* no placed word is shorter than an input word that was not attempted
C29_WordCountCut ==
  (variant = "KDP" /\ pc # "idle") =>
    /\ Len(word_list) <= SettingsWordCount(difficulty)
    /\ Len(placed_words) <= SettingsWordCount(difficulty)
    /\ \A k \in NotAttempted :
         /\ \A i \in 1..Len(word_list) :
              Len(word_list[i].word) >= Len(input[k].word)
         /\ \A n \in 1..Len(placed_words) :
              Len(placed_words[n].word) >= Len(input[k].word)

\* nine words are handed in with the beginner setting, eight are attempted,
\* one of them is placed and the shortest word is left out
C29_Witness ==
  /\ variant = "KDP"
  /\ pc = "done"
  /\ Len(input) = 9
  /\ Len(word_list) = 8
  /\ Len(placed_words) = 1
  /\ NotAttempted = {1}

\* C30: in ExpandedWordCanvas, place_word_in_grid never returns False for a
\* PlacedWord that an attempt has just returned on the same grid, also when
\* its path visits a cell twice; so a word is passed over without being
\* recorded only when its last attempt has failed
C30_CommitNeverRefused ==
  /\ []((variant = "Canvas" /\ pc = "place") =>
         \A start \in Cells("Canvas") :
           \A ds \in DirSeqs(Len(CurrentWord.syllables), Direction) :
             LET placed_word ==
                   attempt_syllable_placement(grid, CurrentWord.syllables,
                                              start, ds)
             IN (CanvasDirsAllowed(start, CurrentWord.syllables, ds)
                 /\ placed_word.ok) =>
                  place_word_check(grid, CurrentWord.syllables,
                                   placed_word.cells))
  /\ [][(/\ variant = "Canvas"
          /\ pc = "place"
          /\ wi' = wi + 1
          /\ placed_words' = placed_words) =>
           attempt + 1 >= max_attempts]_vars

\* the canvas has committed a word whose path visits a cell twice
C30_Witness ==
  /\ variant = "Canvas"
  /\ \E n \in 1..Len(placed_words) :
       \E i, j \in 1..Len(placed_words[n].path) :
         /\ i < j
         /\ placed_words[n].path[i] = placed_words[n].path[j]

====
